---- MODULE Spec2Model ----
(***************************************************************************)
(* Order lifecycle and sequential order-code allocation of the campus      *)
(* canteen server (src/server.js): generateOrderID and the four order      *)
(* routes, POST /api/orders, GET /api/orders, PATCH /api/orders/:id/status *)
(* and PATCH /api/orders/:id/cancel.                                       *)
(*                                                                         *)
(* Every route is an async function: it runs to its next await, and the    *)
(* file read, file write or table put it awaits lands at some later        *)
(* moment, with the steps of other requests in between.  A request is a    *)
(* process whose pc names the I/O it is waiting for; one action is one     *)
(* I/O landing together with the synchronous code that follows it up to    *)
(* the next await.                                                         *)
(***************************************************************************)
EXTENDS Integers, Sequences, FiniteSets, TLC

\* ---------------------------------------------------------------- bounds
NProcs == 2      \* requests in flight at once
MaxOrders == 2   \* orders created, where creations are what is studied
LifeOrders == 1  \* orders created, where one order's lifecycle is studied
MaxDay == 2      \* calendar days

Procs == 1..NProcs

\* ------------------------------------------------------------- constants
\* users.json: the order routes only read it.  u1 has notifications on,
\* u2 has them off; "u9" is an id no user has.
Users ==
  { [id |-> "u1", email |-> "u1@x", name |-> "Asha", phone |-> "111", notifications |-> TRUE],
    [id |-> "u2", email |-> "u2@x", name |-> "Ravi", phone |-> "222", notifications |-> FALSE] }

\* Request bodies of POST /api/orders.
CreateBodies ==
  { [userId |-> "u1", adminId |-> "a1"],
    [userId |-> "u2", adminId |-> "a2"],
    [userId |-> "u9", adminId |-> "a1"] }

\* The six states of the status graph, and one string outside them.
Pending == "pending"
Confirmed == "confirmed"
Preparing == "preparing"
Ready == "ready"
Delivered == "delivered"
Cancelled == "cancelled"
GraphStates == {Pending, Confirmed, Preparing, Ready, Delivered, Cancelled}
StatusInputs == GraphStates \cup {"bogus"}

\* generate4DigitOTP: Math.floor(1000 + Math.random() * 9000), the two ends.
OtpLow == 1000
OtpHigh == 9999
Otps == {OtpLow, OtpHigh}

\* ----------------------------------------------------------------- state
VARIABLES
  today,        \* the calendar day of the process-local clock
  counterFile,  \* data/order-counter.json: [date, counter]
  ordersFile,   \* data/orders.json: the sequence of order records
  mirror,       \* the DynamoDB orders table: a set of records, one per id
  proc,         \* the request each process is serving, and where it is
  nextId,       \* orders built so far (uuidv4: the next id is fresh)
  issued,       \* history: the codes generateOrderID returned, in return order
  landed        \* history: order ids in the order they first reached orders.json

vars == <<today, counterFile, ordersFile, mirror, proc, nextId, issued, landed>>

NoOrder ==
  [id |-> 0, orderId |-> <<"", 0>>, userId |-> "", adminId |-> "", status |-> "",
   otp |-> 0, createdAt |-> 0, updatedAt |-> 0]
NoCounter == [date |-> 0, counter |-> 0]
NoArg == [userId |-> "", adminId |-> "", id |-> 0, status |-> ""]
NoRes == [code |-> 0, error |-> "", order |-> NoOrder, list |-> << >>]

Idle ==
  [pc |-> "idle", op |-> "", arg |-> NoArg, counter |-> NoCounter,
   orders |-> << >>, order |-> NoOrder, mail |-> << >>, res |-> NoRes]

\* res.json / res.status(code).json: the request is answered and its locals
\* are gone; the process keeps what it was asked, what it mailed and what it
\* answered until its next request.
Respond(st, code, error, order, list) ==
  [st EXCEPT !.pc = "idle", !.counter = NoCounter, !.orders = << >>, !.order = NoOrder,
             !.res = [code |-> code, error |-> error, order |-> order, list |-> list]]

\* ------------------------------------------------------------- functions
\* `CC-#${counter.counter}`
OrderCode(n) == <<"CC-#", n>>

\* A generateOrderID that takes the new date and goes on counting.
NextCounterNoReset(c, day) ==
  [date |-> day, counter |-> c.counter + 1]

\* A generateOrderID that counts in steps of two within a day.
NextCounterSkips(c, day) ==
  IF c.date # day
    THEN [date |-> day, counter |-> 1]
    ELSE [c EXCEPT !.counter = @ + 2]

\* generateOrderID, lines 139-144, on the counter it loaded.
NextCounter(c, day) ==
  IF c.date # day
    THEN [date |-> day, counter |-> 1]
    ELSE [c EXCEPT !.counter = @ + 1]

\* orders.find(o => o.id === id): the first match, NoOrder for undefined.
RECURSIVE FindOrder(_, _)
FindOrder(orders, id) ==
  IF orders = << >> THEN NoOrder
  ELSE IF Head(orders).id = id THEN Head(orders)
  ELSE FindOrder(Tail(orders), id)

HasOrder(orders, id) == \E i \in 1..Len(orders) : orders[i].id = id

\* users.find(u => u.id === userId)
HasUser(userId) == \E u \in Users : u.id = userId
FindUser(userId) == CHOOSE u \in Users : u.id = userId

\* A change of status that leaves updatedAt as it was.
SetStatusInKeepsTime(orders, id, status, now) ==
  LET first == CHOOSE i \in 1..Len(orders) :
                 /\ orders[i].id = id
                 /\ \A j \in 1..(i - 1) : orders[j].id # id
  IN [orders EXCEPT ![first] = [@ EXCEPT !.status = status]]

\* order.status = status; order.updatedAt = now, on the found (first) element.
SetStatusIn(orders, id, status, now) ==
  LET first == CHOOSE i \in 1..Len(orders) :
                 /\ orders[i].id = id
                 /\ \A j \in 1..(i - 1) : orders[j].id # id
  IN [orders EXCEPT ![first] = [@ EXCEPT !.status = status, !.updatedAt = now]]

\* dynamoDB.put: the item replaces the one with its key.
MirrorPut(table, item) == {m \in table : m.id # item.id} \cup {item}

\* Array.prototype.reverse
Reverse(s) == [i \in 1..Len(s) |-> s[Len(s) + 1 - i]]

Ids(orders) == {orders[i].id : i \in 1..Len(orders)}

\* The ids of a write that are new to the history of first arrivals.
RECURSIVE NewIds(_, _)
NewIds(orders, seen) ==
  IF orders = << >> THEN << >>
  ELSE IF Head(orders).id \in seen THEN NewIds(Tail(orders), seen)
  ELSE <<Head(orders).id>> \o NewIds(Tail(orders), seen \cup {Head(orders).id})

Range(s) == {s[i] : i \in 1..Len(s)}

\* ------------------------------------------------------------------ init
\* initializeDataFiles, lines 54-65: no orders, counter 0 for today.
Init ==
  /\ today = 1
  /\ counterFile = [date |-> 1, counter |-> 0]
  /\ ordersFile = << >>
  /\ mirror = {}
  /\ proc = [p \in Procs |-> Idle]
  /\ nextId = 0
  /\ issued = << >>
  /\ landed = << >>

\* Midnight: the clock's calendar day moves on.
Tick ==
  /\ today < MaxDay
  /\ today' = today + 1
  /\ UNCHANGED <<counterFile, ordersFile, mirror, proc, nextId, issued, landed>>

\* ------------------------------------------------------ POST /api/orders
\* Creates that have not built their order yet.
Unbuilt == {q \in Procs : proc[q].pc \in {"genRead", "genCalc", "genSave"}}

\* The request arrives; generateOrderID issues its read of the counter file.
\* cap bounds the orders a specification creates.
CreateStart(p, body, cap) ==
  /\ proc[p].pc = "idle"
  /\ nextId + Cardinality(Unbuilt) < cap
  /\ proc' = [proc EXCEPT ![p] =
       [Idle EXCEPT !.pc = "genRead", !.op = "create",
                    !.arg = [NoArg EXCEPT !.userId = body.userId, !.adminId = body.adminId]]]
  /\ UNCHANGED <<today, counterFile, ordersFile, mirror, nextId, issued, landed>>

\* readFromJSON('order-counter.json') lands.
GenRead(p) ==
  /\ proc[p].pc = "genRead"
  /\ proc' = [proc EXCEPT ![p].pc = "genCalc", ![p].counter = counterFile]
  /\ UNCHANGED <<today, counterFile, ordersFile, mirror, nextId, issued, landed>>

\* The date is taken and compared, the loaded counter reset or incremented,
\* and saveToJSON issues the write.
GenCalc(p) ==
  /\ proc[p].pc = "genCalc"
  /\ proc' = [proc EXCEPT ![p].pc = "genSave",
                          ![p].counter = NextCounter(proc[p].counter, today)]
  /\ UNCHANGED <<today, counterFile, ordersFile, mirror, nextId, issued, landed>>

\* The order object of lines 763-777.
BuildOrder(p, otp) ==
  [id |-> nextId + 1,
   orderId |-> OrderCode(proc[p].counter.counter),
   userId |-> proc[p].arg.userId,
   adminId |-> proc[p].arg.adminId,
   status |-> Pending,
   otp |-> otp,
   createdAt |-> today,
   updatedAt |-> 0]

\* The counter write lands; generateOrderID returns the code, the order is
\* built and the read of orders.json is issued.
GenSave(p, otp) ==
  /\ proc[p].pc = "genSave"
  /\ counterFile' = proc[p].counter
  /\ issued' = Append(issued, [day |-> proc[p].counter.date, n |-> proc[p].counter.counter])
  /\ nextId' = nextId + 1
  /\ proc' = [proc EXCEPT ![p].pc = "ordRead", ![p].counter = NoCounter,
                          ![p].order = BuildOrder(p, otp)]
  /\ UNCHANGED <<today, ordersFile, mirror, landed>>

\* readFromJSON('orders.json') lands; orders.push(order); the write is issued.
OrdRead(p) ==
  /\ proc[p].pc = "ordRead"
  /\ proc' = [proc EXCEPT ![p].pc = "ordSave",
                          ![p].orders = Append(ordersFile, proc[p].order)]
  /\ UNCHANGED <<today, counterFile, ordersFile, mirror, nextId, issued, landed>>

\* saveToJSON('orders.json', orders) lands; the table put is issued.
OrdSave(p) ==
  /\ proc[p].pc = "ordSave"
  /\ ordersFile' = proc[p].orders
  /\ landed' = landed \o NewIds(proc[p].orders, Range(landed))
  /\ proc' = [proc EXCEPT ![p].pc = "ordMirror", ![p].orders = << >>]
  /\ UNCHANGED <<today, counterFile, mirror, nextId, issued>>

\* A creation that goes on to the mail without putting the order.
OrdMirrorSkips(p) ==
  /\ proc[p].pc = "ordMirror"
  /\ proc' = [proc EXCEPT ![p].pc = "ordNotify"]
  /\ UNCHANGED <<today, counterFile, ordersFile, mirror, nextId, issued, landed>>

\* saveToDynamoDB(ORDERS_TABLE, order) lands; users.json is read.
OrdMirror(p) ==
  /\ proc[p].pc = "ordMirror"
  /\ mirror' = MirrorPut(mirror, proc[p].order)
  /\ proc' = [proc EXCEPT ![p].pc = "ordNotify"]
  /\ UNCHANGED <<today, counterFile, ordersFile, nextId, issued, landed>>

\* The mail of lines 788-802.
CreatedMail(o) ==
  [to |-> FindUser(o.userId).email, kind |-> "placed", orderId |-> o.orderId,
   status |-> "", otp |-> o.otp]

\* A route that answers the order whether or not the user is found.
OrdNotifyLenient(p) ==
  /\ proc[p].pc = "ordNotify"
  /\ proc' = [proc EXCEPT ![p] = Respond(@, 200, "", proc[p].order, << >>)]
  /\ UNCHANGED <<today, counterFile, ordersFile, mirror, nextId, issued, landed>>

\* users.find; user.email throws on undefined and the catch answers 500;
\* otherwise the mail is sent and the order returned.
OrdNotify(p) ==
  /\ proc[p].pc = "ordNotify"
  /\ proc' = [proc EXCEPT ![p] =
       IF HasUser(proc[p].order.userId)
         THEN Respond([@ EXCEPT !.mail = <<CreatedMail(proc[p].order)>>],
                      200, "", proc[p].order, << >>)
         ELSE Respond(@, 500, "TypeError", NoOrder, << >>)]
  /\ UNCHANGED <<today, counterFile, ordersFile, mirror, nextId, issued, landed>>

\* ------------------------------------------ PATCH /api/orders/:id/status
\* Ids a request can name: those of the orders, and one no order has.
RequestIds(cap) == 1..(cap + 1)

\* The request arrives; the read of orders.json is issued.
StatusStart(p, id, status) ==
  /\ proc[p].pc = "idle"
  /\ proc' = [proc EXCEPT ![p] =
       [Idle EXCEPT !.pc = "stRead", !.op = "status",
                    !.arg = [NoArg EXCEPT !.id = id, !.status = status]]]
  /\ UNCHANGED <<today, counterFile, ordersFile, mirror, nextId, issued, landed>>

\* A route that writes the collection back without looking for the order.
StatusApplyBlind(p, orders) ==
  IF ~HasOrder(orders, proc[p].arg.id)
    THEN [proc[p] EXCEPT !.pc = "stSave", !.orders = orders]
    ELSE LET changed == SetStatusIn(orders, proc[p].arg.id, proc[p].arg.status, today)
         IN [proc[p] EXCEPT !.pc = "stSave", !.orders = changed,
                            !.order = FindOrder(changed, proc[p].arg.id)]

\* A route that changes the status of pending orders only.
StatusApplyPendingOnly(p, orders) ==
  IF ~HasOrder(orders, proc[p].arg.id)
    THEN Respond(proc[p], 404, "Order not found", NoOrder, << >>)
  ELSE IF FindOrder(orders, proc[p].arg.id).status # Pending
    THEN Respond(proc[p], 400, "Illegal transition", NoOrder, << >>)
  ELSE LET changed == SetStatusIn(orders, proc[p].arg.id, proc[p].arg.status, today)
       IN [proc[p] EXCEPT !.pc = "stSave", !.orders = changed,
                          !.order = FindOrder(changed, proc[p].arg.id)]

\* What lines 844-853 do with the loaded collection: 404 when the order is
\* not in it; otherwise status and updatedAt are assigned, whatever the
\* order's status was, and the collection is written back.
StatusApply(p, orders) ==
  IF ~HasOrder(orders, proc[p].arg.id)
    THEN Respond(proc[p], 404, "Order not found", NoOrder, << >>)
    ELSE LET changed == SetStatusIn(orders, proc[p].arg.id, proc[p].arg.status, today)
         IN [proc[p] EXCEPT !.pc = "stSave", !.orders = changed,
                            !.order = FindOrder(changed, proc[p].arg.id)]

\* readFromJSON('orders.json') lands and the handler runs to its write.
StRead(p) ==
  /\ proc[p].pc = "stRead"
  /\ proc' = [proc EXCEPT ![p] = StatusApply(p, ordersFile)]
  /\ UNCHANGED <<today, counterFile, ordersFile, mirror, nextId, issued, landed>>

\* saveToJSON('orders.json', orders) lands; the table put is issued.
StSave(p) ==
  /\ proc[p].pc = "stSave"
  /\ ordersFile' = proc[p].orders
  /\ landed' = landed \o NewIds(proc[p].orders, Range(landed))
  /\ proc' = [proc EXCEPT ![p].pc = "stMirror", ![p].orders = << >>]
  /\ UNCHANGED <<today, counterFile, mirror, nextId, issued>>

\* saveToDynamoDB(ORDERS_TABLE, order) lands; users.json is read.
StMirror(p) ==
  /\ proc[p].pc = "stMirror"
  /\ mirror' = MirrorPut(mirror, proc[p].order)
  /\ proc' = [proc EXCEPT ![p].pc = "stNotify"]
  /\ UNCHANGED <<today, counterFile, ordersFile, nextId, issued, landed>>

\* A status mail that never carries the OTP.
StatusMailNoOtp(o, status) ==
  [to |-> FindUser(o.userId).email, kind |-> "update", orderId |-> o.orderId,
   status |-> status, otp |-> 0]

\* The mail of lines 877-886: the OTP is in it only for 'ready'.
StatusMail(o, status) ==
  [to |-> FindUser(o.userId).email, kind |-> "update", orderId |-> o.orderId,
   status |-> status, otp |-> IF status = Ready THEN o.otp ELSE 0]

\* if (user && user.preferences?.notifications) sendEmail(...); res.json
StNotify(p) ==
  /\ proc[p].pc = "stNotify"
  /\ proc' = [proc EXCEPT ![p] =
       Respond([@ EXCEPT !.mail = IF /\ HasUser(proc[p].order.userId)
                                     /\ FindUser(proc[p].order.userId).notifications
                                    THEN <<StatusMail(proc[p].order, proc[p].arg.status)>>
                                    ELSE << >>],
               200, "", proc[p].order, << >>)]
  /\ UNCHANGED <<today, counterFile, ordersFile, mirror, nextId, issued, landed>>

\* ------------------------------------------ PATCH /api/orders/:id/cancel
CancelStart(p, id) ==
  /\ proc[p].pc = "idle"
  /\ proc' = [proc EXCEPT ![p] =
       [Idle EXCEPT !.pc = "cnRead", !.op = "cancel", !.arg = [NoArg EXCEPT !.id = id]]]
  /\ UNCHANGED <<today, counterFile, ordersFile, mirror, nextId, issued, landed>>

\* A guard that lets an order in preparation be cancelled too.
CancellableLate(status) == status \in {Pending, Confirmed, Preparing}

\* ['pending', 'confirmed'].includes(order.status)
Cancellable(status) == status \in {Pending, Confirmed}

\* What lines 901-914 do with the loaded collection.
CancelApply(p, orders) ==
  IF ~HasOrder(orders, proc[p].arg.id)
    THEN Respond(proc[p], 404, "Order not found", NoOrder, << >>)
  ELSE IF ~Cancellable(FindOrder(orders, proc[p].arg.id).status)
    THEN Respond(proc[p], 400, "Order cannot be cancelled at this stage", NoOrder, << >>)
  ELSE LET changed == SetStatusIn(orders, proc[p].arg.id, Cancelled, today)
       IN [proc[p] EXCEPT !.pc = "cnSave", !.orders = changed,
                          !.order = FindOrder(changed, proc[p].arg.id)]

\* readFromJSON('orders.json') lands and the handler runs to its write or
\* to its error response.
CnRead(p) ==
  /\ proc[p].pc = "cnRead"
  /\ proc' = [proc EXCEPT ![p] = CancelApply(p, ordersFile)]
  /\ UNCHANGED <<today, counterFile, ordersFile, mirror, nextId, issued, landed>>

\* saveToJSON('orders.json', orders) lands; the table put is issued.
CnSave(p) ==
  /\ proc[p].pc = "cnSave"
  /\ ordersFile' = proc[p].orders
  /\ landed' = landed \o NewIds(proc[p].orders, Range(landed))
  /\ proc' = [proc EXCEPT ![p].pc = "cnMirror", ![p].orders = << >>]
  /\ UNCHANGED <<today, counterFile, mirror, nextId, issued>>

\* saveToDynamoDB(ORDERS_TABLE, order) lands; res.json
CnMirror(p) ==
  /\ proc[p].pc = "cnMirror"
  /\ mirror' = MirrorPut(mirror, proc[p].order)
  /\ proc' = [proc EXCEPT ![p] = Respond(@, 200, "", proc[p].order, << >>)]
  /\ UNCHANGED <<today, counterFile, ordersFile, nextId, issued, landed>>

\* -------------------------------------------------------- GET /api/orders
\* The query of a listing: an absent field is the empty string, which the
\* `if (userId)` tests of lines 816-818 skip.
ListFilters ==
  { [userId |-> "", adminId |-> "", status |-> ""],
    [userId |-> "u1", adminId |-> "", status |-> ""],
    [userId |-> "", adminId |-> "a1", status |-> Pending],
    [userId |-> "u2", adminId |-> "a2", status |-> Cancelled] }

ListStart(p, f) ==
  /\ proc[p].pc = "idle"
  /\ proc' = [proc EXCEPT ![p] =
       [Idle EXCEPT !.pc = "lsRead", !.op = "list",
                    !.arg = [NoArg EXCEPT !.userId = f.userId, !.adminId = f.adminId,
                                          !.status = f.status]]]
  /\ UNCHANGED <<today, counterFile, ordersFile, mirror, nextId, issued, landed>>

\* Filters that keep an order when any one supplied field agrees.
MatchesAny(o, f) ==
  \/ f.userId = "" /\ f.adminId = "" /\ f.status = ""
  \/ f.userId # "" /\ o.userId = f.userId
  \/ f.adminId # "" /\ o.adminId = f.adminId
  \/ f.status # "" /\ o.status = f.status

\* Lines 816-818: each supplied field filters the collection in turn.
Matches(o, f) ==
  /\ f.userId = "" \/ o.userId = f.userId
  /\ f.adminId = "" \/ o.adminId = f.adminId
  /\ f.status = "" \/ o.status = f.status

FilterOrders(orders, f) == SelectSeq(orders, LAMBDA o : Matches(o, f))

\* A listing that forgets to reverse.
ListResultOldestFirst(orders, f) == FilterOrders(orders, f)

\* Lines 814-831: filter, then most recent first.  (userName and userPhone,
\* added to each element from users.json, are left out of the records.)
ListResult(orders, f) == Reverse(FilterOrders(orders, f))

\* readFromJSON('orders.json') lands; the handler filters, reverses, answers.
LsRead(p) ==
  /\ proc[p].pc = "lsRead"
  /\ proc' = [proc EXCEPT ![p] =
       Respond(@, 200, "", NoOrder, ListResult(ordersFile, proc[p].arg))]
  /\ UNCHANGED <<today, counterFile, ordersFile, mirror, nextId, issued, landed>>

\* --------------------------------------------------------------- failures
\* saveToJSON, saveToDynamoDB and sendEmail each wrap their I/O in a
\* try/catch that logs and returns: the caller goes on as after a success,
\* and the store or the mailbox is as before.

\* The write of orders.json fails in saveToJSON; the put is issued.
OrdSaveFail(p) ==
  /\ proc[p].pc = "ordSave"
  /\ proc' = [proc EXCEPT ![p].pc = "ordMirror", ![p].orders = << >>]
  /\ UNCHANGED <<today, counterFile, ordersFile, mirror, nextId, issued, landed>>

\* A failed put that reaches the route's catch.
OrdMirrorFailThrows(p) ==
  /\ proc[p].pc = "ordMirror"
  /\ proc' = [proc EXCEPT ![p] = Respond(@, 500, "StorageUnavailable", NoOrder, << >>)]
  /\ UNCHANGED <<today, counterFile, ordersFile, mirror, nextId, issued, landed>>

\* The put fails in saveToDynamoDB; users.json is read.
OrdMirrorFail(p) ==
  /\ proc[p].pc = "ordMirror"
  /\ proc' = [proc EXCEPT ![p].pc = "ordNotify"]
  /\ UNCHANGED <<today, counterFile, ordersFile, mirror, nextId, issued, landed>>

\* A failed mail that reaches the route's catch.
OrdNotifyFailThrows(p) ==
  /\ proc[p].pc = "ordNotify"
  /\ HasUser(proc[p].order.userId)
  /\ proc' = [proc EXCEPT ![p] = Respond(@, 500, "MailFailed", NoOrder, << >>)]
  /\ UNCHANGED <<today, counterFile, ordersFile, mirror, nextId, issued, landed>>

\* The user is found and brevo.sendTransacEmail fails in sendEmail: no
\* mail leaves, res.json answers the order.
OrdNotifyFail(p) ==
  /\ proc[p].pc = "ordNotify"
  /\ HasUser(proc[p].order.userId)
  /\ proc' = [proc EXCEPT ![p] = Respond(@, 200, "", proc[p].order, << >>)]
  /\ UNCHANGED <<today, counterFile, ordersFile, mirror, nextId, issued, landed>>

\* A failed write of orders.json that reaches the route's catch.
StSaveFailThrows(p) ==
  /\ proc[p].pc = "stSave"
  /\ proc' = [proc EXCEPT ![p] = Respond(@, 500, "StorageUnavailable", NoOrder, << >>)]
  /\ UNCHANGED <<today, counterFile, ordersFile, mirror, nextId, issued, landed>>

StSaveFail(p) ==
  /\ proc[p].pc = "stSave"
  /\ proc' = [proc EXCEPT ![p].pc = "stMirror", ![p].orders = << >>]
  /\ UNCHANGED <<today, counterFile, ordersFile, mirror, nextId, issued, landed>>

StMirrorFail(p) ==
  /\ proc[p].pc = "stMirror"
  /\ proc' = [proc EXCEPT ![p].pc = "stNotify"]
  /\ UNCHANGED <<today, counterFile, ordersFile, mirror, nextId, issued, landed>>

\* sendEmail is called (the user has notifications on) and fails.
StNotifyFail(p) ==
  /\ proc[p].pc = "stNotify"
  /\ HasUser(proc[p].order.userId)
  /\ FindUser(proc[p].order.userId).notifications
  /\ proc' = [proc EXCEPT ![p] = Respond(@, 200, "", proc[p].order, << >>)]
  /\ UNCHANGED <<today, counterFile, ordersFile, mirror, nextId, issued, landed>>

CnSaveFail(p) ==
  /\ proc[p].pc = "cnSave"
  /\ proc' = [proc EXCEPT ![p].pc = "cnMirror", ![p].orders = << >>]
  /\ UNCHANGED <<today, counterFile, ordersFile, mirror, nextId, issued, landed>>

\* A cancellation that waits for the put to succeed.
CnMirrorFailRetries(p) ==
  /\ proc[p].pc = "cnMirror"
  /\ UNCHANGED vars

CnMirrorFail(p) ==
  /\ proc[p].pc = "cnMirror"
  /\ proc' = [proc EXCEPT ![p] = Respond(@, 200, "", proc[p].order, << >>)]
  /\ UNCHANGED <<today, counterFile, ordersFile, mirror, nextId, issued, landed>>

\* The read of order-counter.json fails in readFromJSON, which returns {}:
\* a counter with no date and no count.
GenReadFail(p) ==
  /\ proc[p].pc = "genRead"
  /\ proc' = [proc EXCEPT ![p].pc = "genCalc", ![p].counter = NoCounter]
  /\ UNCHANGED <<today, counterFile, ordersFile, mirror, nextId, issued, landed>>

\* The write of order-counter.json fails in saveToJSON; generateOrderID
\* returns its code all the same and the order is built.
GenSaveFail(p, otp) ==
  /\ proc[p].pc = "genSave"
  /\ issued' = Append(issued, [day |-> proc[p].counter.date, n |-> proc[p].counter.counter])
  /\ nextId' = nextId + 1
  /\ proc' = [proc EXCEPT ![p].pc = "ordRead", ![p].counter = NoCounter,
                          ![p].order = BuildOrder(p, otp)]
  /\ UNCHANGED <<today, counterFile, ordersFile, mirror, landed>>

\* ------------------------------------------------------- specifications
\* One request of each route, with its inputs drawn from the given sets.
CreateOrder(p, bodies, otps, cap) ==
  \/ \E body \in bodies : CreateStart(p, body, cap)
  \/ GenRead(p)
  \/ GenCalc(p)
  \/ \E otp \in otps : GenSave(p, otp)
  \/ OrdRead(p)
  \/ OrdSave(p)
  \/ OrdMirror(p)
  \/ OrdNotify(p)

SetStatus(p, ids, statuses) ==
  \/ \E id \in ids, s \in statuses : StatusStart(p, id, s)
  \/ StRead(p)
  \/ StSave(p)
  \/ StMirror(p)
  \/ StNotify(p)

CancelOrder(p, ids) ==
  \/ \E id \in ids : CancelStart(p, id)
  \/ CnRead(p)
  \/ CnSave(p)
  \/ CnMirror(p)

ListOrders(p, filters) ==
  \/ \E f \in filters : ListStart(p, f)
  \/ LsRead(p)

OneBody == {[userId |-> "u1", adminId |-> "a1"]}

\* No request but p's is in flight.
Alone(p) == \A q \in Procs \ {p} : proc[q].pc = "idle"

\* The lifecycle of an order within one day: overlapping creations, status
\* changes and cancellations.
Next ==
  \E p \in Procs :
    \/ CreateOrder(p, OneBody, {OtpLow}, LifeOrders)
    \/ SetStatus(p, RequestIds(LifeOrders), StatusInputs)
    \/ CancelOrder(p, RequestIds(LifeOrders))

Spec == Init /\ [][Next]_vars

\* The allocator: overlapping creations, and midnight.
NextAlloc ==
  \/ Tick
  \/ \E p \in Procs : CreateOrder(p, OneBody, {OtpLow}, MaxOrders)

SpecAlloc == Init /\ [][NextAlloc]_vars

\* Creations one after the other: a request starts only when no other is
\* in flight.
NextSeq ==
  \/ Tick
  \/ \E p \in Procs :
       \/ \E body \in CreateBodies : Alone(p) /\ CreateStart(p, body, MaxOrders)
       \/ GenRead(p)
       \/ GenCalc(p)
       \/ \E otp \in Otps : GenSave(p, otp)
       \/ OrdRead(p)
       \/ OrdSave(p)
       \/ OrdMirror(p)
       \/ OrdNotify(p)

SpecSeq == Init /\ [][NextSeq]_vars

\* Listings beside creations and cancellations.
NextList ==
  \E p \in Procs :
    \/ CreateOrder(p, CreateBodies, {OtpLow}, MaxOrders)
    \/ CancelOrder(p, RequestIds(MaxOrders))
    \/ ListOrders(p, ListFilters)

SpecList == Init /\ [][NextList]_vars

\* The lifecycle of an order with every write, put and mail free to fail.
NextFault ==
  \E p \in Procs :
    \/ CreateOrder(p, OneBody, {OtpLow}, LifeOrders)
    \/ SetStatus(p, RequestIds(LifeOrders), StatusInputs)
    \/ CancelOrder(p, RequestIds(LifeOrders))
    \/ OrdSaveFail(p)
    \/ OrdMirrorFail(p)
    \/ OrdNotifyFail(p)
    \/ StSaveFail(p)
    \/ StMirrorFail(p)
    \/ StNotifyFail(p)
    \/ CnSaveFail(p)
    \/ CnMirrorFail(p)

SpecFault == Init /\ [][NextFault]_vars

\* The steps of a request that is under way.  Node runs the continuation of
\* every await whose I/O has completed, so a started request is not left
\* waiting forever.
Continue(p) ==
  \/ GenRead(p)
  \/ GenCalc(p)
  \/ GenSave(p, OtpLow)
  \/ OrdRead(p)
  \/ OrdSave(p)
  \/ OrdMirror(p)
  \/ OrdNotify(p)
  \/ CnRead(p)
  \/ CnSave(p)
  \/ CnMirror(p)

\* Creations and cancellations with working stores, every started request
\* running to its response.
NextLive ==
  \E p \in Procs :
    \/ CreateOrder(p, OneBody, {OtpLow}, MaxOrders)
    \/ CancelOrder(p, RequestIds(MaxOrders))

SpecLive == Init /\ [][NextLive]_vars /\ \A p \in Procs : WF_vars(Continue(p))

\* Status changes and cancellations of an order whose owner has
\* notifications on, has them off, or is no user.
NextNotify ==
  \E p \in Procs :
    \/ CreateOrder(p, CreateBodies, Otps, LifeOrders)
    \/ SetStatus(p, RequestIds(LifeOrders), {Confirmed, Ready})
    \/ CancelOrder(p, RequestIds(LifeOrders))

SpecNotify == Init /\ [][NextNotify]_vars

\* Creations one after the other, with the read and the write of the
\* counter file free to fail.
NextSeqFault ==
  \/ Tick
  \/ \E p \in Procs :
       \/ Alone(p) /\ CreateStart(p, [userId |-> "u1", adminId |-> "a1"], MaxOrders)
       \/ GenRead(p)
       \/ GenReadFail(p)
       \/ GenCalc(p)
       \/ GenSave(p, OtpLow)
       \/ GenSaveFail(p, OtpLow)
       \/ OrdRead(p)
       \/ OrdSave(p)
       \/ OrdMirror(p)
       \/ OrdNotify(p)

SpecSeqFault == Init /\ [][NextSeqFault]_vars

\* The steps of a started request when every put fails.
ContinueDown(p) ==
  \/ GenRead(p) \/ GenCalc(p) \/ GenSave(p, OtpLow)
  \/ OrdRead(p) \/ OrdSave(p) \/ OrdMirrorFail(p) \/ OrdNotify(p)
  \/ StRead(p) \/ StSave(p) \/ StMirrorFail(p) \/ StNotify(p)
  \/ CnRead(p) \/ CnSave(p) \/ CnMirrorFail(p)

\* The lifecycle of an order with the table permanently unavailable: every
\* put fails, and every started request runs on.
NextMirrorDown ==
  \E p \in Procs :
    \/ CreateStart(p, [userId |-> "u1", adminId |-> "a1"], LifeOrders)
    \/ \E id \in RequestIds(LifeOrders), s \in {Confirmed, Ready} : StatusStart(p, id, s)
    \/ \E id \in RequestIds(LifeOrders) : CancelStart(p, id)
    \/ GenRead(p)
    \/ GenCalc(p)
    \/ GenSave(p, OtpLow)
    \/ OrdRead(p)
    \/ OrdSave(p)
    \/ OrdMirrorFail(p)
    \/ OrdNotify(p)
    \/ StRead(p)
    \/ StSave(p)
    \/ StMirrorFail(p)
    \/ StNotify(p)
    \/ CnRead(p)
    \/ CnSave(p)
    \/ CnMirrorFail(p)

SpecMirrorDown ==
  Init /\ [][NextMirrorDown]_vars /\ \A p \in Procs : WF_vars(ContinueDown(p))

\* No creation is in flight.
NoCreateInFlight ==
  \A q \in Procs :
    proc[q].pc \notin {"genRead", "genCalc", "genSave", "ordRead", "ordSave",
                       "ordMirror", "ordNotify"}

\* Overlapping status changes and cancellations of an order whose creation
\* ran alone and was answered before they started.
NextSettled ==
  \E p \in Procs :
    \/ Alone(p) /\ CreateStart(p, [userId |-> "u1", adminId |-> "a1"], LifeOrders)
    \/ GenRead(p)
    \/ GenCalc(p)
    \/ GenSave(p, OtpLow)
    \/ OrdRead(p)
    \/ OrdSave(p)
    \/ OrdMirror(p)
    \/ OrdNotify(p)
    \/ \E id \in RequestIds(LifeOrders), s \in StatusInputs :
         NoCreateInFlight /\ StatusStart(p, id, s)
    \/ StRead(p)
    \/ StSave(p)
    \/ StMirror(p)
    \/ StNotify(p)
    \/ \E id \in RequestIds(LifeOrders) : NoCreateInFlight /\ CancelStart(p, id)
    \/ CnRead(p)
    \/ CnSave(p)
    \/ CnMirror(p)

SpecSettled == Init /\ [][NextSettled]_vars

\* ================================================================ claims
\* The codes returned on day d, in return order.
CodesOn(d) == SelectSeq(issued, LAMBDA c : c.day = d)
CodeNumbers == {issued[i].n : i \in 1..Len(issued)}
InAllocator(p) == proc[p].pc \in {"genRead", "genCalc", "genSave"}

\* C1: N overlapping createOrder calls on one day, from a counter of 0 for
\* that day, return pairwise distinct codes, and exactly CC-#1 .. CC-#N.
\* (Day 1 is the day the counter starts at 0; issued holds the N codes
\* returned so far, and the orders carrying them are what the calls return.)
ConcurrentCodesContiguous ==
  today = 1 =>
    /\ \A i, j \in 1..Len(issued) : i # j => issued[i].n # issued[j].n
    /\ (\A p \in Procs : ~InAllocator(p)) => CodeNumbers = 1..Len(issued)

\* C2: codes issued on one calendar day are strictly increasing in the order
\* the generateOrderID calls return, for any interleaving and across a day
\* rollover.
CodesStrictlyIncreasing ==
  \A i, j \in 1..Len(issued) :
    (i < j /\ issued[i].day = issued[j].day) => issued[i].n < issued[j].n

\* C3: when generateOrderID finds the date of the DailyCounter it loaded
\* different from the date it takes at allocation, it sets the counter to 1
\* whatever the prior value, stores that date with it, and returns CC-#1.
\* First conjunct: the comparison and reset; second: the write that lands
\* and the code returned are those of the counter so computed.
RolloverResets ==
  [][\A p \in Procs :
       /\ (/\ proc[p].pc = "genCalc"
           /\ proc'[p].pc = "genSave"
           /\ proc[p].counter.date # today)
          => proc'[p].counter = [date |-> today, counter |-> 1]
       /\ (proc[p].pc = "genSave" /\ proc'[p].pc = "ordRead")
          => /\ counterFile' = proc[p].counter
             /\ proc'[p].order.orderId = <<"CC-#", proc[p].counter.counter>>
             /\ issued'[Len(issued')] =
                  [day |-> proc[p].counter.date, n |-> proc[p].counter.counter]
     ]_vars

\* C3 witness: a call reset a counter that stood at 1 or more on day 1 and
\* returned CC-#1 for day 2, and the file holds day 2 with counter 1.
RolloverResetReached ==
  /\ counterFile = [date |-> 2, counter |-> 1]
  /\ \E i, j \in 1..Len(issued) :
       /\ i < j
       /\ issued[i].day = 1 /\ issued[i].n >= 1
       /\ issued[j] = [day |-> 2, n |-> 1]

\* C4: sequential createOrder calls: the k-th call of a day returns CC-#k
\* (the first of the initial day CC-#1, from counter 0), every returned
\* order is pending and carries the code allocated for it, and between
\* calls the persisted counter is the number of codes issued on its day.
SequentialCodes ==
  /\ \A i \in 1..Len(issued) :
       issued[i].n = Cardinality({j \in 1..i : issued[j].day = issued[i].day})
  /\ (\A p \in Procs : ~InAllocator(p))
       => counterFile.counter = Len(CodesOn(counterFile.date))
  /\ \A p \in Procs :
       (proc[p].op = "create" /\ proc[p].pc = "idle" /\ proc[p].res.code = 200)
         => /\ proc[p].res.order.status = "pending"
            /\ proc[p].res.order.orderId = <<"CC-#", issued[proc[p].res.order.id].n>>

\* C4 witness: two calls on one day returned CC-#1 and then CC-#2.
SecondOrderReached ==
  /\ Len(issued) = 2
  /\ issued[1].day = issued[2].day
  /\ issued[2].n = 2
  /\ \E p \in Procs :
       /\ proc[p].op = "create" /\ proc[p].pc = "idle" /\ proc[p].res.code = 200
       /\ proc[p].res.order.orderId = <<"CC-#", 2>>
       /\ proc[p].res.order.status = "pending"

\* The status graph of the lifecycle: the happy path, and cancellation from
\* pending or confirmed.
Edges ==
  { <<"pending", "confirmed">>, <<"confirmed", "preparing">>, <<"preparing", "ready">>,
    <<"ready", "delivered">>, <<"pending", "cancelled">>, <<"confirmed", "cancelled">> }
Terminal == {"delivered", "cancelled"}

\* The stored status of order id (orders.json); "" when it is not stored.
StoredStatus(id) == FindOrder(ordersFile, id).status
StoredStatusAfter(id) == FindOrder(ordersFile', id).status

\* Process p's request has just taken the step that follows its read of
\* orders.json.
StatusDecided(p) == proc[p].pc = "stRead" /\ proc'[p].pc # "stRead"
CancelDecided(p) == proc[p].pc = "cnRead" /\ proc'[p].pc # "cnRead"

\* C5: every change of a stored order's status follows an edge of the graph.
StatusFollowsGraph ==
  [][\A id \in Ids(ordersFile) \cap Ids(ordersFile') :
       StoredStatus(id) # StoredStatusAfter(id)
         => <<StoredStatus(id), StoredStatusAfter(id)>> \in Edges]_vars

\* C6: setStatus on an order that is delivered or cancelled is refused,
\* whatever status it asks for, and writes nothing.
TerminalRefusesSetStatus ==
  [][\A p \in Procs :
       (StatusDecided(p) /\ StoredStatus(proc[p].arg.id) \in Terminal)
         => /\ proc'[p].pc = "idle"
            /\ proc'[p].res.code # 200
            /\ proc'[p].res.error # ""]_vars

\* C7: setStatus with a status that is no legal successor of the order's
\* status (ready on a pending order, a string outside the six states) is
\* refused and writes nothing.
IllegalSuccessorRefused ==
  [][\A p \in Procs :
       (/\ StatusDecided(p)
        /\ HasOrder(ordersFile, proc[p].arg.id)
        /\ <<StoredStatus(proc[p].arg.id), proc[p].arg.status>> \notin Edges)
         => /\ proc'[p].pc = "idle"
            /\ proc'[p].res.code # 200
            /\ proc'[p].orders = << >>]_vars

\* C8: cancelOrder on a stored order goes through exactly when the status
\* it finds is pending or confirmed.  Then the write it issues, and the
\* record it stores, differ from what it read in that order's status, now
\* cancelled, and its updatedAt, and it answers 200 with the cancelled
\* order; otherwise it answers 400 (cannot be cancelled) and writes nothing.
CancelIffPendingOrConfirmed ==
  [][\A p \in Procs :
       /\ (CancelDecided(p) /\ HasOrder(ordersFile, proc[p].arg.id))
            => IF StoredStatus(proc[p].arg.id) \in {"pending", "confirmed"}
                 THEN /\ proc'[p].pc = "cnSave"
                      /\ Len(proc'[p].orders) = Len(ordersFile)
                      /\ \A i \in 1..Len(ordersFile) :
                           IF ordersFile[i].id = proc[p].arg.id
                             THEN proc'[p].orders[i] =
                                    [ordersFile[i] EXCEPT !.status = "cancelled",
                                                          !.updatedAt = today]
                             ELSE proc'[p].orders[i] = ordersFile[i]
                 ELSE /\ proc'[p].pc = "idle"
                      /\ proc'[p].res.code = 400
                      /\ proc'[p].res.error = "Order cannot be cancelled at this stage"
                      /\ ordersFile' = ordersFile
       /\ (proc[p].pc = "cnSave" /\ proc'[p].pc # "cnSave")
            => /\ ordersFile' = proc[p].orders
               /\ StoredStatusAfter(proc[p].arg.id) = "cancelled"
       /\ (proc[p].pc = "cnMirror" /\ proc'[p].pc # "cnMirror")
            => /\ proc'[p].res.code = 200
               /\ proc'[p].res.order.id = proc[p].arg.id
               /\ proc'[p].res.order.status = "cancelled"
     ]_vars

\* C8 witness: one cancellation went through on a confirmed order and is
\* stored, and another was refused.
CancelBothWaysReached ==
  /\ \E p \in Procs :
       /\ proc[p].op = "cancel" /\ proc[p].pc = "idle" /\ proc[p].res.code = 200
       /\ StoredStatus(proc[p].arg.id) = "cancelled"
  /\ \E q \in Procs :
       /\ proc[q].op = "cancel" /\ proc[q].pc = "idle" /\ proc[q].res.code = 400

\* C9: a stored status of delivered or cancelled never changes again.
TerminalIsStable ==
  [][\A id \in Ids(ordersFile) \cap Ids(ordersFile') :
       StoredStatus(id) \in Terminal => StoredStatusAfter(id) = StoredStatus(id)]_vars

\* A listing with no filter has just been answered by p.
ListedAll(p) ==
  /\ proc[p].pc = "lsRead" /\ proc'[p].pc = "idle"
  /\ proc[p].arg.userId = "" /\ proc[p].arg.adminId = "" /\ proc[p].arg.status = ""

\* The place of an order in the history of first arrivals in orders.json.
ArrivalOf(id) == CHOOSE k \in 1..Len(landed) : landed[k] = id

Listed(p) == proc[p].pc = "lsRead" /\ proc'[p].pc = "idle"

MirrorFailureHarmless ==
  [][\A p \in Procs :
       /\ (proc[p].pc = "ordMirror" /\ proc'[p] # proc[p]) =>
            /\ proc'[p] = [proc[p] EXCEPT !.pc = "ordNotify"]
            /\ UNCHANGED <<ordersFile, counterFile>>
       /\ (/\ proc[p].pc = "ordNotify" /\ proc'[p].pc = "idle"
           /\ HasUser(proc[p].order.userId)) =>
            /\ proc'[p].res.code = 200
            /\ proc'[p].res.error = ""
            /\ proc'[p].res.order = proc[p].order
            /\ UNCHANGED <<ordersFile, counterFile>>]_vars

\* C12 witness: a creation was answered with its order, which is stored in
\* orders.json and is not in the table.
MirrorFailedCreateReached ==
  \E p \in Procs :
    /\ proc[p].op = "create" /\ proc[p].pc = "idle"
    /\ proc[p].res.code = 200
    /\ HasOrder(ordersFile, proc[p].res.order.id)
    /\ \A m \in mirror : m.id # proc[p].res.order.id

UnknownOrderRefused ==
  [][\A p \in Procs :
       (/\ StatusDecided(p) \/ CancelDecided(p)
        /\ ~HasOrder(ordersFile, proc[p].arg.id)) =>
         /\ proc'[p].pc = "idle"
         /\ proc'[p].res.code = 404
         /\ proc'[p].res.error = "Order not found"
         /\ proc'[p].res.order = NoOrder
         /\ proc'[p].mail = << >>
         /\ UNCHANGED <<ordersFile, counterFile, mirror>>]_vars

\* C14 witness: a status change and a cancellation of an id no order has
\* were both refused while an order is stored.
UnknownOrderRefusedReached ==
  \E p, q \in Procs :
    /\ proc[p].op = "status" /\ proc[p].pc = "idle" /\ proc[p].res.code = 404
    /\ proc[q].op = "cancel" /\ proc[q].pc = "idle" /\ proc[q].res.code = 404
    /\ ordersFile # << >>
    /\ ~HasOrder(ordersFile, proc[p].arg.id)
    /\ ~HasOrder(ordersFile, proc[q].arg.id)

\* C15: an id that is in orders.json is in it after every step.
OrdersNeverRemoved ==
  [][Ids(ordersFile) \subseteq Ids(ordersFile')]_vars

\* The last step of a creation or of a status change.
CreateAnswered(p) == proc[p].pc = "ordNotify" /\ proc'[p].pc = "idle"
StatusAnswered(p) == proc[p].pc = "stNotify" /\ proc'[p].pc = "idle"

\* C16: when no mail leaves on the last step of a creation for a known
\* user or of a status change, the step changes neither orders.json, the
\* counter nor the table, and the response is 200 with the order the
\* request wrote (for a status change, with the requested status).
MailFailureHarmless ==
  [][\A p \in Procs :
       /\ (/\ CreateAnswered(p) /\ HasUser(proc[p].order.userId)
           /\ proc'[p].mail = << >>) =>
            /\ proc'[p].res.code = 200 /\ proc'[p].res.error = ""
            /\ proc'[p].res.order = proc[p].order
            /\ UNCHANGED <<ordersFile, counterFile, mirror>>
       /\ (StatusAnswered(p) /\ proc'[p].mail = << >>) =>
            /\ proc'[p].res.code = 200 /\ proc'[p].res.error = ""
            /\ proc'[p].res.order = proc[p].order
            /\ proc'[p].res.order.status = proc[p].arg.status
            /\ UNCHANGED <<ordersFile, counterFile, mirror>>]_vars

\* C16 witness: a creation and a status change, both for a user who has
\* notifications on, were answered 200 with no mail sent, and the order is
\* stored with the status the change asked for.
MailFailedReached ==
  \E p, q \in Procs :
    /\ proc[p].op = "create" /\ proc[p].pc = "idle" /\ proc[p].res.code = 200
    /\ proc[p].mail = << >>
    /\ proc[q].op = "status" /\ proc[q].pc = "idle" /\ proc[q].res.code = 200
    /\ proc[q].mail = << >>
    /\ FindUser(proc[q].res.order.userId).notifications
    /\ HasOrder(ordersFile, proc[q].arg.id)
    /\ StoredStatus(proc[q].arg.id) = proc[q].arg.status
    /\ proc[q].arg.status = Confirmed

\* The ids of the items of the table.
MirrorIds == {m.id : m \in mirror}

\* C17: with working puts and every started request running to its end,
\* an order that is in orders.json is eventually in the table under its id.
DurableLeadsToMirror ==
  \A id \in 1..MaxOrders : (id \in Ids(ordersFile)) ~> (id \in MirrorIds)

\* C17 witness: two orders are stored and the table holds both ids.
BothMirroredReached ==
  /\ Ids(ordersFile) = 1..MaxOrders
  /\ MirrorIds = 1..MaxOrders

\* The stage that follows the write of orders.json in each route.
AfterSave(pc) ==
  IF pc = "ordSave" THEN "ordMirror" ELSE IF pc = "stSave" THEN "stMirror" ELSE "cnMirror"

\* The last step of a cancellation.
CancelAnswered(p) == proc[p].pc = "cnMirror" /\ proc'[p].pc = "idle"

\* C18: a request whose write of orders.json leaves the file as it was goes
\* on to its next stage with its order, and a creation (for a known user),
\* a status change or a cancellation whose order is not what orders.json
\* holds is still answered 200 with that order.
WriteFailureSwallowed ==
  [][\A p \in Procs :
       /\ (/\ proc[p].pc \in {"ordSave", "stSave", "cnSave"}
           /\ proc'[p] # proc[p]
           /\ ordersFile' = ordersFile) =>
            proc'[p] = [proc[p] EXCEPT !.pc = AfterSave(proc[p].pc), !.orders = << >>]
       /\ (/\ \/ CreateAnswered(p) /\ HasUser(proc[p].order.userId)
              \/ StatusAnswered(p)
              \/ CancelAnswered(p)
           /\ FindOrder(ordersFile, proc[p].order.id) # proc[p].order) =>
            /\ proc'[p].res.code = 200 /\ proc'[p].res.error = ""
            /\ proc'[p].res.order = proc[p].order]_vars

\* C18 witness: a status change to confirmed and a cancellation were both
\* answered 200 with the changed order while the stored order is still
\* pending and was never updated.
WriteFailedReached ==
  \E p, q \in Procs :
    /\ proc[p].op = "status" /\ proc[p].pc = "idle" /\ proc[p].res.code = 200
    /\ proc[p].res.order.status = Confirmed
    /\ proc[q].op = "cancel" /\ proc[q].pc = "idle" /\ proc[q].res.code = 200
    /\ proc[q].res.order.status = Cancelled
    /\ HasOrder(ordersFile, 1)
    /\ StoredStatus(1) = Pending
    /\ FindOrder(ordersFile, 1).updatedAt = 0

\* C19: at most one generateOrderID call is between its read of
\* order-counter.json and its write of it.
AllocatorMutex ==
  Cardinality({p \in Procs : proc[p].pc \in {"genCalc", "genSave"}}) <= 1

\* C20: a status change to ready that finds the order confirmed goes on to
\* its write with the order ready; when the write lands the stored status
\* is ready; and the request is answered 200 with the order ready.
ConfirmedThenReady ==
  [][\A p \in Procs :
       proc[p].arg.status = Ready =>
         /\ (/\ StatusDecided(p)
             /\ HasOrder(ordersFile, proc[p].arg.id)
             /\ StoredStatus(proc[p].arg.id) = Confirmed) =>
              /\ proc'[p].pc = "stSave"
              /\ proc'[p].order.id = proc[p].arg.id
              /\ proc'[p].order.status = Ready
         /\ (proc[p].pc = "stSave" /\ proc'[p].pc = "stMirror") =>
              /\ HasOrder(ordersFile', proc[p].arg.id)
              /\ StoredStatusAfter(proc[p].arg.id) = Ready
         /\ StatusAnswered(p) =>
              /\ proc'[p].res.code = 200
              /\ proc'[p].res.order.id = proc[p].arg.id
              /\ proc'[p].res.order.status = Ready]_vars

\* C20 witness: a status change to confirmed was answered 200, a status
\* change to ready of the same order was answered 200 with the order
\* ready, and the stored status is ready.
ConfirmedThenReadyReached ==
  \E p, q \in Procs :
    /\ proc[p].op = "status" /\ proc[p].pc = "idle" /\ proc[p].res.code = 200
    /\ proc[p].arg.status = Confirmed
    /\ proc[q].op = "status" /\ proc[q].pc = "idle" /\ proc[q].res.code = 200
    /\ proc[q].arg.status = Ready /\ proc[q].arg.id = proc[p].arg.id
    /\ proc[q].res.order.status = Ready
    /\ StoredStatus(proc[q].arg.id) = Ready

\* The owner of order o is a user who has notifications on.
Notified(o) == HasUser(o.userId) /\ FindUser(o.userId).notifications

\* C21 as stated: every status change answered 200 has sent exactly one
\* mail, for the requested status, with the order's OTP when that status
\* is ready.
EverySetStatusNotifies ==
  [][\A p \in Procs :
       (StatusAnswered(p) /\ proc'[p].res.code = 200) =>
         /\ Len(proc'[p].mail) = 1
         /\ proc'[p].mail[1].status = proc[p].arg.status
         /\ proc[p].arg.status = Ready => proc'[p].mail[1].otp = proc[p].order.otp]_vars

\* C21 amended: a status change answered 200 has sent exactly one mail when
\* the order's owner is a user with notifications on (to that user, for the
\* requested status, with the OTP stored for the order when the status is
\* ready), and no mail otherwise.
SetStatusNotifiesSubscribers ==
  [][\A p \in Procs :
       (StatusAnswered(p) /\ proc'[p].res.code = 200) =>
         IF Notified(proc[p].order)
           THEN /\ Len(proc'[p].mail) = 1
                /\ proc'[p].mail[1].kind = "update"
                /\ proc'[p].mail[1].to = FindUser(proc[p].order.userId).email
                /\ proc'[p].mail[1].orderId = proc[p].order.orderId
                /\ proc'[p].mail[1].status = proc[p].arg.status
                /\ proc[p].arg.status = Ready =>
                     /\ proc'[p].mail[1].otp \in Otps
                     /\ HasOrder(ordersFile, proc[p].arg.id) =>
                          proc'[p].mail[1].otp = FindOrder(ordersFile, proc[p].arg.id).otp
           ELSE proc'[p].mail = << >>]_vars

\* C21 witness: a change to ready of a subscriber's order was answered
\* with one mail carrying the stored OTP.
ReadyMailReached ==
  \E p \in Procs :
    /\ proc[p].op = "status" /\ proc[p].pc = "idle" /\ proc[p].res.code = 200
    /\ proc[p].arg.status = Ready
    /\ Len(proc[p].mail) = 1
    /\ proc[p].mail[1].otp = OtpHigh
    /\ HasOrder(ordersFile, proc[p].arg.id)
    /\ FindOrder(ordersFile, proc[p].arg.id).otp = OtpHigh

\* generateOrderID has just returned in p's request.
CodeReturned(p) == proc[p].pc = "genSave" /\ proc'[p].pc = "ordRead"

\* C22: at the moment generateOrderID returns CC-#n, order-counter.json
\* holds the day of the code with a counter of at least n.
CodeReturnedAfterPersist ==
  [][\A p \in Procs :
       CodeReturned(p) =>
         /\ counterFile'.date = proc[p].counter.date
         /\ counterFile'.counter >= proc[p].counter.counter]_vars

\* C23 (for a creation): the put of the order into the table, and the mail
\* of the creation, happen only when the order has arrived in orders.json
\* by a write that succeeded; the put comes before the mail.
MirrorAndMailOnlyAfterWrite ==
  [][\A p \in Procs :
       /\ (/\ proc[p].pc = "ordMirror" /\ proc'[p].pc = "ordNotify"
           /\ proc[p].order.id \in {m.id : m \in mirror'}) =>
            proc[p].order.id \in Range(landed)
       /\ (CreateAnswered(p) /\ proc'[p].mail # << >>) =>
            proc[p].order.id \in Range(landed)]_vars

\* The fields of an order that are assigned at creation.
Fixed(o) == <<o.id, o.orderId, o.userId, o.adminId, o.otp, o.createdAt>>

\* C24: a status change or cancellation that goes on to its write has
\* changed, in the collection it loaded, only the target order, leaving
\* that order's creation fields and setting its updatedAt to the current
\* time; an order arrives in orders.json as its creation built it; and
\* no step changes a creation field of a stored or mirrored order.
OnlyStatusAndTimeChange ==
  [][/\ \A p \in Procs :
          (/\ StatusDecided(p) \/ CancelDecided(p)
           /\ proc'[p].pc \in {"stSave", "cnSave"}) =>
            /\ Fixed(proc'[p].order) = Fixed(FindOrder(ordersFile, proc[p].arg.id))
            /\ proc'[p].order.updatedAt = today
            /\ proc'[p].order.status = IF proc[p].op = "cancel" THEN Cancelled
                                        ELSE proc[p].arg.status
            /\ Len(proc'[p].orders) = Len(ordersFile)
            /\ \A i \in 1..Len(ordersFile) :
                 IF ordersFile[i].id = proc[p].arg.id
                   THEN proc'[p].orders[i] = proc'[p].order
                   ELSE proc'[p].orders[i] = ordersFile[i]
     /\ \A p \in Procs :
          (proc[p].pc = "ordSave" /\ proc'[p].pc = "ordMirror"
           /\ HasOrder(ordersFile', proc[p].order.id)) =>
            FindOrder(ordersFile', proc[p].order.id) = proc[p].order
     /\ \A i \in 1..Len(ordersFile), j \in 1..Len(ordersFile') :
          ordersFile[i].id = ordersFile'[j].id =>
            Fixed(ordersFile[i]) = Fixed(ordersFile'[j])
     /\ \A m \in mirror, n \in mirror' : m.id = n.id => Fixed(m) = Fixed(n)]_vars

\* C24 witness: the order of u2, created with the high OTP, is stored
\* cancelled with updatedAt set, after a status change and a cancellation
\* of it were both answered 200.
ChangedOrderReached ==
  \E p, q \in Procs :
    /\ proc[p].op = "status" /\ proc[p].pc = "idle" /\ proc[p].res.code = 200
    /\ proc[q].op = "cancel" /\ proc[q].pc = "idle" /\ proc[q].res.code = 200
    /\ HasOrder(ordersFile, 1)
    /\ LET o == FindOrder(ordersFile, 1)
       IN /\ o.status = Cancelled /\ o.updatedAt = today
          /\ o.userId = "u2" /\ o.otp = OtpHigh /\ o.createdAt = 1
          /\ Fixed(o) = Fixed(proc[p].res.order)
          /\ Fixed(o) = Fixed(proc[q].res.order)

\* C25: with every put failing, every started request is eventually
\* answered, and the step of the failed put leaves the request where the
\* successful put leaves it (the next stage, or for a cancellation the 200
\* response with the order) and leaves orders.json and the counter alone.
MirrorDownTolerated ==
  /\ \A p \in Procs : (proc[p].pc # "idle") ~> (proc[p].pc = "idle")
  /\ [][\A p \in Procs :
          /\ (proc[p].pc = "ordMirror" /\ proc'[p] # proc[p]) =>
               /\ proc'[p] = [proc[p] EXCEPT !.pc = "ordNotify"]
               /\ UNCHANGED <<ordersFile, counterFile>>
          /\ (proc[p].pc = "stMirror" /\ proc'[p] # proc[p]) =>
               /\ proc'[p] = [proc[p] EXCEPT !.pc = "stNotify"]
               /\ UNCHANGED <<ordersFile, counterFile>>
          /\ (proc[p].pc = "cnMirror" /\ proc'[p] # proc[p]) =>
               /\ proc'[p].pc = "idle"
               /\ proc'[p].res.code = 200 /\ proc'[p].res.error = ""
               /\ proc'[p].res.order = proc[p].order
               /\ UNCHANGED <<ordersFile, counterFile>>
          /\ (CreateAnswered(p) \/ StatusAnswered(p)) =>
               /\ proc'[p].res.code = 200
               /\ proc'[p].res.order = proc[p].order]_vars

\* C25 witness: a status change and a cancellation of the stored order
\* were both answered 200 while the table is empty.
MirrorDownAnsweredReached ==
  \E p, q \in Procs :
    /\ proc[p].op = "status" /\ proc[p].pc = "idle" /\ proc[p].res.code = 200
    /\ proc[q].op = "cancel" /\ proc[q].pc = "idle" /\ proc[q].res.code = 200
    /\ HasOrder(ordersFile, 1) /\ StoredStatus(1) = Cancelled
    /\ mirror = {}

\* A write of orders.json by p's request has just landed.
Wrote(p) ==
  /\ proc[p].pc \in {"ordSave", "stSave", "cnSave"}
  /\ proc'[p].pc \in {"ordMirror", "stMirror", "cnMirror"}

\* C26: when the write of a request lands, every stored order other than
\* the request's own is stored after the write exactly as before it.
OtherOrdersUntouched ==
  [][\A p \in Procs :
       Wrote(p) =>
         \A i \in 1..Len(ordersFile) :
           ordersFile[i].id # proc[p].order.id =>
             /\ HasOrder(ordersFile', ordersFile[i].id)
             /\ FindOrder(ordersFile', ordersFile[i].id) = ordersFile[i]]_vars

\* C27: when no request is in flight, the table holds for every stored
\* order an item with the order's id and the order's status.
StoresAgreeAtRest ==
  (\A p \in Procs : proc[p].pc = "idle") =>
    \A i \in 1..Len(ordersFile) :
      \E m \in mirror : m.id = ordersFile[i].id /\ m.status = ordersFile[i].status

\* C28: when a creation is answered with an error, the order it built is
\* neither in orders.json nor in the table, and the counter file does not
\* hold the count of the code it was given.
FailedCreateLeavesNoTrace ==
  [][\A p \in Procs :
       (CreateAnswered(p) /\ proc'[p].res.code # 200) =>
         /\ ~HasOrder(ordersFile', proc[p].order.id)
         /\ proc[p].order.id \notin {m.id : m \in mirror'}
         /\ counterFile'.counter < proc[p].order.orderId[2]]_vars

\* C29: no two codes returned on one day carry the same number.
NoCodeReissued ==
  \A i, j \in 1..Len(issued) :
    (i < j /\ issued[i].day = issued[j].day) => issued[i].n # issued[j].n
====
